---- MODULE Spec2Model ----
(***************************************************************************)
(* A model of heihachi's frame database:                                   *)
(*   - the wavu move graph resolver (frame_service/wavu/utils.py),         *)
(*   - the query engine and the loader of FrameDb (framedb/framedb.py).    *)
(* Strings are sequences of one-character strings, so that splitting,      *)
(* joining, replacing and comparing are computed as Python computes them.  *)
(***************************************************************************)
EXTENDS Integers, Sequences, FiniteSets, TLC

VARIABLES
    \* _convert_wavu_movelist
    raw,            \* the records handed to the resolver: id -> WavuMove
    movelist,       \* the order of the ids in the list handed to the resolver
    wavu_movelist,  \* id -> WavuMove, mutated in place
    seen,           \* id -> BOOLEAN
    idx,            \* position of the for loop in movelist
    stack,          \* the "function call stack" of ids
    curr_move,      \* id of curr_move
    acc,            \* parent_input, parent_target, parent_damage, root_startup
    pc,             \* position in _convert_wavu_movelist
    applied,        \* id -> how many times the pop loop has prefixed the move
    previous,       \* what an earlier call on the same records returned
    \* FrameDb
    frames,         \* FrameDb.frames: CharacterName -> Character, a partial map
    call,           \* the query method called on the FrameDb, with its arguments
    result,         \* what the call returned or raised
    \* FrameDb.load, the frame service and a reader
    load_pc,        \* position in FrameDb.load
    load_idx,       \* position of the for loop in CharacterName
    service,        \* what the frame service answers in this load, by character
    autocomplete,   \* the characters of the autocomplete index
    loads,          \* the number of calls of load so far
    before,         \* FrameDb.frames as it was when this load began
    observed        \* what a reader of FrameDb.frames last saw, and when

resVars == <<raw, movelist, wavu_movelist, seen, idx, stack, curr_move, acc, pc, applied, previous>>

dbVars == <<frames, call, result>>

loadVars == <<load_pc, load_idx, service, autocomplete, loads, before, observed>>

vars == <<raw, movelist, wavu_movelist, seen, idx, stack, curr_move, acc, pc, applied, previous,
          frames, call, result,
          load_pc, load_idx, service, autocomplete, loads, before, observed>>

(***************************************************************************)
(* Bounds                                                                  *)
(***************************************************************************)
\* number of moves in the list handed to the resolver
NMoves == 3

\* the longest movelist of a character of the FrameDb
MaxMoves == 6

\* the number of characters of CharacterName
NChars == 2

\* the number of calls of FrameDb.load in one behaviour
MaxLoads == 2

\* the number of tokens a query handed to _simplify_input is made of
MaxTokens == 3

(***************************************************************************)
(* Strings                                                                 *)
(***************************************************************************)
Digit(i) == <<"1", "2", "3", "4", "5", "6", "7", "8", "9">>[i]

Contains(s, c) == \E i \in 1..Len(s) : s[i] = c

\* str.split(sep) for a one-character separator: the pieces between the
\* separators, the k-th piece running from after the (k-1)-th separator to
\* before the k-th
Split(s, sep) ==
    LET seps  == {i \in 1..Len(s) : s[i] = sep}
        n     == Cardinality(seps)
        At(k) == IF k = 0 THEN 0
                 ELSE IF k = n + 1 THEN Len(s) + 1
                 ELSE CHOOSE i \in seps : Cardinality({j \in seps : j <= i}) = k
    IN  [k \in 1..(n + 1) |-> SubSeq(s, At(k - 1) + 1, At(k) - 1)]

\* sep.join(parts), from part k on
RECURSIVE JoinFrom(_, _, _)
JoinFrom(parts, k, sep) ==
    IF k > Len(parts) THEN <<>>
    ELSE IF k = Len(parts) THEN parts[k]
    ELSE parts[k] \o <<sep>> \o JoinFrom(parts, k + 1, sep)

\* sep.join(parts)
Join(parts, sep) == JoinFrom(parts, 1, sep)

\* seq[:-1]
ButLast(s) == IF s = <<>> THEN <<>> ELSE SubSeq(s, 1, Len(s) - 1)

UpperCase == <<"A", "B", "C", "D", "E", "F", "G", "H", "I", "J", "K", "L", "M",
               "N", "O", "P", "Q", "R", "S", "T", "U", "V", "W", "X", "Y", "Z">>

LowerCase == <<"a", "b", "c", "d", "e", "f", "g", "h", "i", "j", "k", "l", "m",
               "n", "o", "p", "q", "r", "s", "t", "u", "v", "w", "x", "y", "z">>

LowerChar(c) ==
    IF \E i \in 1..Len(UpperCase) : UpperCase[i] = c
    THEN LowerCase[CHOOSE i \in 1..Len(UpperCase) : UpperCase[i] = c]
    ELSE c

\* str.lower()
Lower(s) == [i \in 1..Len(s) |-> LowerChar(s[i])]

\* str.strip()
RECURSIVE LStrip(_)
LStrip(s) == IF s # <<>> /\ s[1] = " " THEN LStrip(Tail(s)) ELSE s

RECURSIVE RStrip(_)
RStrip(s) == IF s # <<>> /\ s[Len(s)] = " " THEN RStrip(ButLast(s)) ELSE s

Strip(s) == RStrip(LStrip(s))

\* s[:n]
Prefix(s, n) == SubSeq(s, 1, IF Len(s) < n THEN Len(s) ELSE n)

\* str.replace(old, new) with a non-empty old: every non-overlapping
\* occurrence, from the left
RECURSIVE Replace(_, _, _)
Replace(s, old, new) ==
    IF Len(s) < Len(old) THEN s
    ELSE IF SubSeq(s, 1, Len(old)) = old
         THEN new \o Replace(SubSeq(s, Len(old) + 1, Len(s)), old, new)
         ELSE <<s[1]>> \o Replace(Tail(s), old, new)

\* a in b
IsSubstring(a, b) ==
    \E i \in 0..(Len(b) - Len(a)) : SubSeq(b, i + 1, i + Len(a)) = a

(***************************************************************************)
(* The parts of the state a specification leaves alone                     *)
(***************************************************************************)
\* no _convert_wavu_movelist is running
ResolverIdle ==
    /\ raw = <<>> /\ movelist = <<>> /\ wavu_movelist = <<>> /\ seen = <<>>
    /\ idx = 0 /\ stack = <<>> /\ curr_move = 0 /\ acc = <<>> /\ pc = "none"
    /\ applied = <<>> /\ previous = <<>>

\* no load has run: FrameDb.__init__ has set frames only
LoadIdle ==
    /\ load_pc = "idle" /\ load_idx = 0 /\ service = <<>> /\ autocomplete = {}
    /\ loads = 0 /\ before = <<>>
    /\ observed = [during |-> FALSE, load |-> 0, frames |-> <<>>]

(***************************************************************************)
(* Move graph resolver: _convert_wavu_movelist and _create_aliases         *)
(***************************************************************************)
Ids == 1..NMoves

NoParent == 0

\* Raw records, as _convert_json_move builds them.  Data set d puts an input
\* with the separator "_" at move d - 1 (data set 1 has none).
PlainInput(i) == IF i = 1 THEN <<"f", "+", "1">> ELSE <<"+", Digit(i)>>

UnderscoreInput(i) ==
    CASE i % 3 = 1 -> <<"d", "/", "f", "+", "1", ",", "2", "_", "3">>
      [] i % 3 = 2 -> <<"f", "+", "1", "+", "3", "_", "f", "+", "2", "+", "4">>
      [] OTHER     -> <<",", "1", ",", "2", "_", "3", "_", "4">>

RawInput(d, i) == IF i = d - 1 THEN UnderscoreInput(i) ELSE PlainInput(i)

RawTarget(i) == IF i = 1 THEN <<"m">> ELSE <<",", <<"h", "l", "m">>[(i % 3) + 1]>>

RawDamage(i) == IF i = 1 THEN <<"1", "0">> ELSE <<",", Digit(i)>>

RawStartup(i) == <<"i", "1", Digit(i)>>

RawAlias(i) == IF i = 1 THEN << <<"w", "s", "1">> >> ELSE <<>>

RawMove(d, i, p) ==
    [id |-> i, input |-> RawInput(d, i), target |-> RawTarget(i),
     damage |-> RawDamage(i), startup |-> RawStartup(i),
     alias |-> RawAlias(i), parent |-> p]

\* the chain of ancestors of i under parent map p has no cycle
RECURSIVE ReachesRoot(_, _, _)
ReachesRoot(p, i, fuel) ==
    IF p[i] = NoParent THEN TRUE
    ELSE IF fuel = 0 THEN FALSE
    ELSE ReachesRoot(p, p[i], fuel - 1)

Forests == {p \in [Ids -> {NoParent} \cup Ids] : \A i \in Ids : ReachesRoot(p, i, NMoves)}

Orders == {o \in [Ids -> Ids] : \A i, j \in Ids : o[i] = o[j] => i = j}

DataSets == 1..(NMoves + 1)

CreateAliasesWholeFirst(input) == Split(input, ",")

\* input.split(",")[:-1]
CreateAliasesPrefix(input) == ButLast(Split(input, ","))

\* input.split("_"), parts[0], ",".join(parent + [part]) for part in parts[1:]
CreateAliases(input) ==
    LET Built(parts) ==
            LET first  == parts[1]
                parent == CreateAliasesPrefix(first)
            IN  [input |-> first,
                 alias |-> [k \in 1..(Len(parts) - 1) |->
                               Join(parent \o <<parts[k + 1]>>, ",")]]
    IN  CHOOSE created \in {Built(parts) : parts \in {Split(input, "_")}} : TRUE

PrefixedSwapped(parent_value, own) == own \o parent_value

KeptStartup(root_startup, own) == own

\* parent_input + curr_move.input (likewise target and damage)
Prefixed(parent_value, own) == parent_value \o own

\* curr_move.startup = root_startup
InheritedStartup(root_startup, own) == root_startup

InitResolver ==
    /\ \E d \in DataSets, p \in Forests, o \in Orders :
          /\ raw = [i \in Ids |-> RawMove(d, i, p[i])]
          /\ movelist = o
    /\ wavu_movelist = raw
    /\ seen = [i \in Ids |-> FALSE]
    /\ idx = 1
    /\ stack = <<>>
    /\ curr_move = NoParent
    /\ acc = [input |-> <<>>, target |-> <<>>, damage |-> <<>>, startup |-> <<>>]
    /\ pc = "for"
    /\ applied = [i \in Ids |-> 0]
    /\ previous = <<>>
    /\ frames = <<>>
    /\ call = [op |-> "none"]
    /\ result = [kind |-> "pending"]
    /\ LoadIdle

\* for move in movelist: stack = []; curr_move = move
ForMove ==
    /\ pc = "for"
    /\ idx <= NMoves
    /\ stack' = <<>>
    /\ curr_move' = movelist[idx]
    /\ pc' = "walk"
    /\ UNCHANGED <<raw, movelist, wavu_movelist, seen, idx, acc, applied, previous, dbVars, loadVars>>

MarkedNever(seen_now, id) == seen_now

\* seen[id] = True
Marked(seen_now, id) == [seen_now EXCEPT ![id] = TRUE]

WalksWhileParent(move, seen_now) == move.parent # NoParent

\* curr_move.parent and not seen[curr_move.id]
WalksOn(move, seen_now) == move.parent # NoParent /\ ~seen_now[move.id]

\* one turn of: while curr_move.parent and not seen[curr_move.id]
WalkUp ==
    /\ pc = "walk"
    /\ IF WalksOn(wavu_movelist[curr_move], seen)
       THEN /\ stack' = Append(stack, curr_move)
            /\ seen' = Marked(seen, curr_move)
            /\ curr_move' = wavu_movelist[curr_move].parent
            /\ pc' = "walk"
       ELSE /\ pc' = "root"
            /\ UNCHANGED <<stack, seen, curr_move>>
    /\ UNCHANGED <<raw, movelist, wavu_movelist, idx, acc, applied, previous, dbVars, loadVars>>

\* the accumulators are taken from the move the walk stopped at
TakeRoot ==
    /\ pc = "root"
    /\ acc' = [input   |-> wavu_movelist[curr_move].input,
               target  |-> wavu_movelist[curr_move].target,
               damage  |-> wavu_movelist[curr_move].damage,
               startup |-> wavu_movelist[curr_move].startup]
    /\ seen' = Marked(seen, curr_move)
    /\ pc' = "pop"
    /\ UNCHANGED <<raw, movelist, wavu_movelist, idx, stack, curr_move, applied, previous, dbVars, loadVars>>

\* one turn of: while stack
PopStack ==
    /\ pc = "pop"
    /\ IF stack # <<>>
       THEN LET curr_id == stack[Len(stack)]
                m       == wavu_movelist[curr_id]
                new     == [m EXCEPT !.input   = Prefixed(acc.input, m.input),
                                     !.target  = Prefixed(acc.target, m.target),
                                     !.damage  = Prefixed(acc.damage, m.damage),
                                     !.startup = InheritedStartup(acc.startup, m.startup)]
            IN  /\ stack' = SubSeq(stack, 1, Len(stack) - 1)
                /\ curr_move' = curr_id
                /\ wavu_movelist' = [wavu_movelist EXCEPT ![curr_id] = new]
                /\ seen' = Marked(seen, curr_id)
                /\ acc' = [acc EXCEPT !.input = new.input, !.target = new.target,
                                      !.damage = new.damage]
                /\ applied' = [applied EXCEPT ![curr_id] = @ + 1]
                /\ pc' = "pop"
       ELSE /\ pc' = "alias"
            /\ UNCHANGED <<stack, curr_move, wavu_movelist, seen, acc, applied>>
    /\ UNCHANGED <<raw, movelist, idx, previous, dbVars, loadVars>>

\* if "_" in move.input: move.input, move.alias = _create_aliases(move.input)
SplitAliases ==
    /\ pc = "alias"
    /\ LET move == movelist[idx]
           m    == wavu_movelist[move]
       IN  IF Contains(m.input, "_")
           THEN \E created \in {CreateAliases(m.input)} :
                    wavu_movelist' =
                        [wavu_movelist EXCEPT ![move] =
                            [m EXCEPT !.input = created.input,
                                      !.alias = created.alias]]
           ELSE UNCHANGED wavu_movelist
    /\ idx' = idx + 1
    /\ pc' = "for"
    /\ UNCHANGED <<raw, movelist, seen, stack, curr_move, acc, applied, previous, dbVars, loadVars>>

\* return {move.id: move for move in movelist}
Return ==
    /\ pc = "for"
    /\ idx > NMoves
    /\ pc' = "done"
    /\ UNCHANGED <<raw, movelist, wavu_movelist, seen, idx, stack, curr_move, acc, applied, previous, dbVars, loadVars>>

NextResolver == ForMove \/ WalkUp \/ TakeRoot \/ PopStack \/ SplitAliases \/ Return

Spec == InitResolver /\ [][NextResolver]_vars

\* a second call, on the same records listed in another order; the first
\* call's return value is kept
CallAgain ==
    /\ pc = "done"
    /\ previous = <<>>
    /\ \E o \in Orders : movelist' = o
    /\ previous' = wavu_movelist
    /\ wavu_movelist' = raw
    /\ seen' = [i \in Ids |-> FALSE]
    /\ idx' = 1
    /\ stack' = <<>>
    /\ curr_move' = NoParent
    /\ acc' = [input |-> <<>>, target |-> <<>>, damage |-> <<>>, startup |-> <<>>]
    /\ applied' = [i \in Ids |-> 0]
    /\ pc' = "for"
    /\ UNCHANGED <<raw, dbVars, loadVars>>

NextTwoOrders == CallAgain \/ NextResolver

SpecTwoOrders == InitResolver /\ [][NextTwoOrders]_vars

\* every parent id is NoParent or the id of a move of the list: cycles included
ParentMaps == [Ids -> {NoParent} \cup Ids]

\* before the call: no list has been handed over
InitAnyParents ==
    /\ ResolverIdle
    /\ frames = <<>>
    /\ call = [op |-> "none"]
    /\ result = [kind |-> "pending"]
    /\ LoadIdle

\* the call of _convert_wavu_movelist(movelist), up to the for loop
CallConvert ==
    /\ pc = "none"
    /\ \E d \in DataSets, p \in ParentMaps, o \in Orders :
          /\ raw' = [i \in Ids |-> RawMove(d, i, p[i])]
          /\ movelist' = o
    /\ wavu_movelist' = raw'
    /\ seen' = [i \in Ids |-> FALSE]
    /\ idx' = 1
    /\ stack' = <<>>
    /\ curr_move' = NoParent
    /\ acc' = [input |-> <<>>, target |-> <<>>, damage |-> <<>>, startup |-> <<>>]
    /\ pc' = "for"
    /\ applied' = [i \in Ids |-> 0]
    /\ UNCHANGED <<previous, dbVars, loadVars>>

NextAnyParents == CallConvert \/ NextResolver

\* the function runs on one thread: a step that can be taken is taken
SpecAnyParents == InitAnyParents /\ [][NextAnyParents]_vars /\ WF_vars(NextAnyParents)

(***************************************************************************)
(* Claims about the move graph resolver                                    *)
(***************************************************************************)
NoUnderscoreInRaw == \A i \in Ids : ~Contains(raw[i].input, "_")

\* the raw values of field f concatenated from the root ancestor of i down to i
RECURSIVE ChainInput(_)
ChainInput(i) ==
    IF raw[i].parent = NoParent THEN raw[i].input
    ELSE ChainInput(raw[i].parent) \o raw[i].input

RECURSIVE ChainTarget(_)
ChainTarget(i) ==
    IF raw[i].parent = NoParent THEN raw[i].target
    ELSE ChainTarget(raw[i].parent) \o raw[i].target

RECURSIVE ChainDamage(_)
ChainDamage(i) ==
    IF raw[i].parent = NoParent THEN raw[i].damage
    ELSE ChainDamage(raw[i].parent) \o raw[i].damage

RECURSIVE RootOf(_)
RootOf(i) == IF raw[i].parent = NoParent THEN i ELSE RootOf(raw[i].parent)

\* C1: on a parent forest with no "_" in any input, in any list order, the
\* returned input, target and damage of every move are the raw values
\* concatenated along its chain from the root ancestor down to the move.
C1_ChainConcatenation ==
    (pc = "done" /\ NoUnderscoreInRaw) =>
        \A i \in Ids :
            /\ wavu_movelist[i].input = ChainInput(i)
            /\ wavu_movelist[i].target = ChainTarget(i)
            /\ wavu_movelist[i].damage = ChainDamage(i)

\* the chain A(root, "f+1") -> B("+2") -> C("+3"), with C first in the list
C1_Witness ==
    /\ pc = "done"
    /\ NoUnderscoreInRaw
    /\ raw[1].parent = NoParent /\ raw[2].parent = 1 /\ raw[3].parent = 2
    /\ movelist[1] = 3
    /\ wavu_movelist[1].input = <<"f", "+", "1">>
    /\ wavu_movelist[2].input = <<"f", "+", "1", "+", "2">>
    /\ wavu_movelist[3].input = <<"f", "+", "1", "+", "2", "+", "3">>

\* C2: on any parent forest, in any list order, the returned startup of every
\* move is the raw startup of its root ancestor.
C2_RootStartup ==
    pc = "done" => \A i \in Ids : wavu_movelist[i].startup = raw[RootOf(i)].startup

\* move 3 has just been resolved by a walk that stopped at its parent 2, which
\* an earlier walk had resolved, and not at the root 1
C2_Witness ==
    /\ raw[1].parent = NoParent /\ raw[2].parent = 1 /\ raw[3].parent = 2
    /\ movelist[1] = 2 /\ movelist[2] = 3
    /\ idx = 2 /\ pc = "alias"
    /\ wavu_movelist[3].startup = raw[1].startup
    /\ raw[3].startup # raw[1].startup

\* C3: when the input of a move, as expanded by the walk, contains "_", the
\* split leaves the first "_"-separated segment as its input, and for every
\* later segment an alias made of the first segment's comma-separated steps
\* without the last one, joined by "," with that segment.
C3_AliasDerivation ==
    [][(pc = "alias" /\ Contains(wavu_movelist[movelist[idx]].input, "_")) =>
        LET move  == movelist[idx]
            e     == wavu_movelist[move].input
            k     == CHOOSE n \in 1..Len(e) : e[n] = "_" /\ \A j \in 1..(n - 1) : e[j] # "_"
            first == SubSeq(e, 1, k - 1)
            segs  == Split(e, "_")
            steps == Split(first, ",")
            after == wavu_movelist'[move]
        IN  /\ after.input = first
            /\ Len(after.alias) = Len(segs) - 1
            /\ \A n \in 2..Len(segs) :
                   after.alias[n - 1] =
                       Join(SubSeq(steps, 1, Len(steps) - 1) \o <<segs[n]>>, ",")
            /\ (e = <<"f", "+", "1", "+", "3", "_", "f", "+", "2", "+", "4">>
                   => /\ after.input = <<"f", "+", "1", "+", "3">>
                      /\ after.alias = << <<"f", "+", "2", "+", "4">> >>)
            /\ (e = <<"d", "/", "f", "+", "1", ",", "2", "_", "3">>
                   => /\ after.input = <<"d", "/", "f", "+", "1", ",", "2">>
                      /\ after.alias = << <<"d", "/", "f", "+", "1", ",", "3">> >>)
    ]_vars

\* the root "d/f+1,2_3" has been split into "d/f+1,2" and the alias "d/f+1,3"
C3_Witness ==
    /\ pc = "done"
    /\ raw[1].parent = NoParent
    /\ raw[1].input = <<"d", "/", "f", "+", "1", ",", "2", "_", "3">>
    /\ wavu_movelist[1].input = <<"d", "/", "f", "+", "1", ",", "2">>
    /\ wavu_movelist[1].alias = << <<"d", "/", "f", "+", "1", ",", "3">> >>

\* C13: in one run on a parent forest, the pop loop prefixes every move that
\* has a parent exactly once and a move without a parent never; and a walk
\* that stops at a move with a parent stops at one an earlier walk has marked
\* seen and prefixed, which is not on the stack, and takes that move's stored
\* values as the root values (the chain's target, damage and, with no "_" in
\* the inputs, input), prefixing nothing again.
C13_ResolvedOnce ==
    /\ [](pc # "none" => \A i \in Ids : applied[i] <= 1)
    /\ [](pc = "done" =>
             \A i \in Ids : applied[i] = IF raw[i].parent # NoParent THEN 1 ELSE 0)
    /\ [][(pc = "root" /\ raw[curr_move].parent # NoParent) =>
              /\ seen[curr_move]
              /\ applied[curr_move] = 1
              /\ \A k \in 1..Len(stack) : stack[k] # curr_move
              /\ acc'.input = wavu_movelist[curr_move].input
              /\ NoUnderscoreInRaw => acc'.input = ChainInput(curr_move)
              /\ acc'.target = ChainTarget(curr_move)
              /\ acc'.damage = ChainDamage(curr_move)
              /\ acc'.startup = raw[RootOf(curr_move)].startup
              /\ applied' = applied
              /\ wavu_movelist' = wavu_movelist
       ]_vars

\* the chain 1 <- 2 <- 3 listed as 2, 3, 1: the walk of 3 has stopped at 2,
\* which the first walk had prefixed, and has prefixed 3 with "f+1+2"
C13_Witness ==
    /\ pc = "alias" /\ idx = 2
    /\ NoUnderscoreInRaw
    /\ raw[1].parent = NoParent /\ raw[2].parent = 1 /\ raw[3].parent = 2
    /\ movelist = <<2, 3, 1>>
    /\ applied = <<0, 1, 1>>
    /\ wavu_movelist[3].input = <<"f", "+", "1", "+", "2", "+", "3">>

\* C14: the alias split of a move whose expanded input contains "_" leaves in
\* the move's alias every entry the record had before, in order, followed by
\* the derived entries.
C14_SourceAliasKept ==
    [][(pc = "alias" /\ Contains(wavu_movelist[movelist[idx]].input, "_")) =>
        LET move   == movelist[idx]
            before_split == wavu_movelist[move]
            after  == wavu_movelist'[move]
        IN  after.alias = before_split.alias \o CreateAliases(before_split.input).alias
    ]_vars

\* C15: two calls of _convert_wavu_movelist on the same acyclic records, listed
\* in any two orders, return the same input, target, damage, startup and alias
\* for every move id.
C15_OrderIndependent ==
    (pc = "done" /\ previous # <<>>) =>
        \A i \in Ids :
            /\ wavu_movelist[i].input = previous[i].input
            /\ wavu_movelist[i].target = previous[i].target
            /\ wavu_movelist[i].damage = previous[i].damage
            /\ wavu_movelist[i].startup = previous[i].startup
            /\ wavu_movelist[i].alias = previous[i].alias

\* the parent pointers of the raw records have a cycle
HasCycle == \E i \in Ids : ~ReachesRoot([j \in Ids |-> raw[j].parent], i, NMoves)

\* no move is twice on the stack
StackVisitsOnce == \A i, j \in 1..Len(stack) : stack[i] = stack[j] => i = j

\* C12: on every movelist whose parent ids all exist in the list, cycles
\* included, _convert_wavu_movelist returns: no walk puts a move on its stack
\* twice, and the run reaches its return with the stack emptied.
C12_Terminates ==
    /\ [](StackVisitsOnce /\ Len(stack) <= NMoves)
    /\ <>(pc = "done" /\ stack = <<>>)

\* the run has returned on a list where move 1 is its own parent and moves 2
\* and 3 are each other's parent
C12_Witness ==
    /\ pc = "done"
    /\ stack = <<>>
    /\ raw[1].parent = 1 /\ raw[2].parent = 3 /\ raw[3].parent = 2
    /\ HasCycle

(***************************************************************************)
(* FrameDb: the normaliser of move inputs                                  *)
(***************************************************************************)
\* REPLACE of framedb/const.py: the substitution table, in its order
REPLACE ==
    << << <<" ">>, <<>> >>,
       << <<",">>, <<>> >>,
       << <<"/">>, <<>> >>,
       << <<"d", "+">>, <<"d">> >>,
       << <<"f", "+">>, <<"f">> >>,
       << <<"c", "d", "+">>, <<"c", "d">> >>,
       << <<"w", "r", "+">>, <<"w", "r">> >> >>

\* for old, new in REPLACE.items(): input_query = input_query.replace(old, new)
RECURSIVE ApplyTable(_, _)
ApplyTable(s, table) ==
    IF table = <<>> THEN s
    ELSE ApplyTable(Replace(s, table[1][1], table[1][2]), Tail(table))

\* strip, lower, "rage" -> "r.", "heat" -> "h.", then the table
Normalised(input_query) ==
    LET q0 == Lower(Strip(input_query))
        q1 == Replace(q0, <<"r", "a", "g", "e">>, <<"r", ".">>)
        q2 == Replace(q1, <<"h", "e", "a", "t">>, <<"h", ".">>)
    IN  ApplyTable(q2, REPLACE)

\* input_query.lower().replace("cd", "fnddf")
RewriteCd(q) == Replace(Lower(q), <<"c", "d">>, <<"f", "n", "d", "d", "f">>)

\* input_query.lower().replace("wr", "fff")
RewriteWr(q) == Replace(Lower(q), <<"w", "r">>, <<"f", "f", "f">>)

\* FrameDb._simplify_input
SimplifyInput(input_query) ==
    LET q  == Normalised(input_query)
        q3 == IF Lower(Prefix(q, 2)) = <<"c", "d">> /\ Lower(Prefix(q, 3)) # <<"c", "d", "s">>
              THEN RewriteCd(q) ELSE q
    IN  IF Lower(Prefix(q3, 2)) = <<"w", "r">> THEN RewriteWr(q3) ELSE q3

(***************************************************************************)
(* difflib.SequenceMatcher, as _get_close_matches_indices uses it:         *)
(* seq1 is the possibility, seq2 the word; no junk.                        *)
(***************************************************************************)
\* find_longest_match over the whole of a and b: the longest common block,
\* the one that starts earliest in a and then earliest in b
LongestMatch(a, b) ==
    LET blocks == {t \in (1..Len(a)) \X (1..Len(b)) \X (1..Len(a)) :
                      /\ t[1] + t[3] - 1 <= Len(a)
                      /\ t[2] + t[3] - 1 <= Len(b)
                      /\ SubSeq(a, t[1], t[1] + t[3] - 1) = SubSeq(b, t[2], t[2] + t[3] - 1)}
    IN  IF blocks = {} THEN <<1, 1, 0>>
        ELSE CHOOSE t \in blocks :
                 \A u \in blocks :
                     \/ t[3] > u[3]
                     \/ t[3] = u[3] /\ t[1] < u[1]
                     \/ t[3] = u[3] /\ t[1] = u[1] /\ t[2] <= u[2]

\* the sum of the sizes of get_matching_blocks()
RECURSIVE Matches(_, _)
Matches(a, b) ==
    LET m == LongestMatch(a, b)
    IN  IF m[3] = 0 THEN 0
        ELSE m[3] + Matches(SubSeq(a, 1, m[1] - 1), SubSeq(b, 1, m[2] - 1))
                  + Matches(SubSeq(a, m[1] + m[3], Len(a)), SubSeq(b, m[2] + m[3], Len(b)))

\* _calculate_ratio: 2.0 * matches / length, 1.0 for two empty strings; a
\* ratio is kept as the fraction <<numerator, denominator>>
CalculateRatio(matches, length) == IF length = 0 THEN <<1, 1>> ELSE <<2 * matches, length>>

Ratio(a, b) == CalculateRatio(Matches(a, b), Len(a) + Len(b))

Occurrences(s, c) == Cardinality({i \in 1..Len(s) : s[i] = c})

RECURSIVE SumOver(_, _, _)
SumOver(S, a, b) ==
    IF S = {} THEN 0
    ELSE LET c  == CHOOSE x \in S : TRUE
             na == Occurrences(a, c)
             nb == Occurrences(b, c)
         IN  (IF na < nb THEN na ELSE nb) + SumOver(S \ {c}, a, b)

\* quick_ratio: the characters of a that b has, as multisets
QuickRatio(a, b) ==
    CalculateRatio(SumOver({a[i] : i \in 1..Len(a)}, a, b), Len(a) + Len(b))

\* real_quick_ratio
RealQuickRatio(a, b) ==
    CalculateRatio(IF Len(a) < Len(b) THEN Len(a) ELSE Len(b), Len(a) + Len(b))

\* n: int = 5, cutoff: float = 0.7
CloseMatchesN == 5

CutoffNum == 7

CutoffDen == 10

AtLeastHalf(r) == r[1] * 2 >= r[2]

\* ratio >= cutoff
AtLeastCutoff(r) == r[1] * CutoffDen >= CutoffNum * r[2]

\* the order of the (score, idx) tuples
ScoreLess(x, y) ==
    \/ x.score[1] * y.score[2] < y.score[1] * x.score[2]
    \/ x.score[1] * y.score[2] = y.score[1] * x.score[2] /\ x.idx < y.idx

\* heapq.nlargest(n, result): the n largest, the largest first
RECURSIVE NLargest(_, _)
NLargest(n, S) ==
    IF n = 0 \/ S = {} THEN <<>>
    ELSE LET top == CHOOSE x \in S : \A y \in S : y = x \/ ScoreLess(y, x)
         IN  <<top>> \o NLargest(n - 1, S \ {top})

\* s.real_quick_ratio() >= cutoff and s.quick_ratio() >= cutoff and s.ratio() >= cutoff
GoodEnough(x, word) ==
    /\ AtLeastCutoff(RealQuickRatio(x, word))
    /\ AtLeastCutoff(QuickRatio(x, word))
    /\ AtLeastCutoff(Ratio(x, word))

\* _get_close_matches_indices(word, possibilities); indices from 1
GetCloseMatchesIndices(word, possibilities) ==
    LET scored == {[score |-> Ratio(possibilities[i], word), idx |-> i] :
                      i \in {j \in 1..Len(possibilities) : GoodEnough(possibilities[j], word)}}
        best   == NLargest(CloseMatchesN, scored)
    IN  [k \in 1..Len(best) |-> best[k].idx]

(***************************************************************************)
(* FrameDb: the query methods                                              *)
(***************************************************************************)
\* CharacterName of framedb/const.py, in the order of the enumeration
AllCharacterNames == <<"alisa", "asuka", "azucena", "bryan", "claudio", "devil_jin">>

CharacterName == SubSeq(AllCharacterNames, 1, NChars)

\* MoveType and MOVE_TYPE_ALIAS of framedb/const.py
MoveTypeValue ==
    [homing |-> <<"H", "o", "m", "i", "n", "g">>, throw |-> <<"T", "h", "r", "o", "w">>]

MOVE_TYPE_ALIAS ==
    [homing |-> {<<"h", "o", "m", "i", "n", "g">>, <<"h", "o", "m">>},
     throw  |-> {<<"t", "h", "r", "o", "w">>, <<"g", "r", "a", "b">>}]

\* what a method returns or raises
None == [kind |-> "none"]

KeyError == [kind |-> "raise", error |-> "KeyError"]

AMove(m) == [kind |-> "move", move |-> m]

AList(ms) == [kind |-> "list", moves |-> ms]

\* filter(test, movelist), in the order of the movelist
Filtered(ms, Test(_)) == SelectSeq(ms, Test)

\* self.frames[character].movelist.values()
HasCharacter(db, character) == character \in DOMAIN db

\* FrameDb._is_command_in_alias
IsCommandInAlias(move_query, move) ==
    \E i \in 1..Len(move.alias) : SimplifyInput(move_query) = SimplifyInput(move.alias[i])

\* FrameDb._is_command_in_alt
IsCommandInAlt(move_query, move) ==
    \E i \in 1..Len(move.alt) : SimplifyInput(move_query) = SimplifyInput(move.alt[i])

\* the first of the matches, when there is one
FirstOf(matches) == matches[1]

\* one pass over the movelist, taking the first move that matches in any way
GetMoveByInputOnePass(db, character, input_query) ==
    IF ~HasCharacter(db, character) THEN KeyError
    ELSE LET ByAny(entry) == \/ SimplifyInput(entry.input) = SimplifyInput(input_query)
                             \/ IsCommandInAlt(input_query, entry)
                             \/ IsCommandInAlias(input_query, entry)
             hits == Filtered(db[character].movelist, ByAny)
         IN  IF hits # <<>> THEN AMove(FirstOf(hits)) ELSE None

\* FrameDb.get_move_by_input
GetMoveByInput(db, character, input_query) ==
    IF ~HasCharacter(db, character) THEN KeyError
    ELSE LET character_movelist == db[character].movelist
             ByInput(entry) == SimplifyInput(entry.input) = SimplifyInput(input_query)
             ByAlt(entry)   == IsCommandInAlt(input_query, entry)
             ByAlias(entry) == IsCommandInAlias(input_query, entry)
             direct == Filtered(character_movelist, ByInput)
             alts   == Filtered(character_movelist, ByAlt)
             aliass == Filtered(character_movelist, ByAlias)
         IN  IF direct # <<>> THEN AMove(FirstOf(direct))
             ELSE IF alts # <<>> THEN AMove(FirstOf(alts))
             ELSE IF aliass # <<>> THEN AMove(FirstOf(aliass))
             ELSE None

\* move_name_query.lower() in x.name.lower()
NameMatches(move_name_query, move) == IsSubstring(Lower(move_name_query), Lower(move.name))

\* FrameDb.get_moves_by_move_name
GetMovesByMoveName(db, character, move_name_query) ==
    IF ~HasCharacter(db, character) THEN KeyError
    ELSE LET Test(x) == NameMatches(move_name_query, x)
         IN  AList(Filtered(db[character].movelist, Test))

\* FrameDb._correct_move_type
CorrectMoveType(move_type_query) ==
    LET hits == {t \in DOMAIN MOVE_TYPE_ALIAS : Lower(move_type_query) \in MOVE_TYPE_ALIAS[t]}
    IN  IF hits = {} THEN None ELSE [kind |-> "type", type |-> CHOOSE t \in hits : TRUE]

\* FrameDb.get_moves_by_move_type
GetMovesByMoveType(db, character, move_type_query) ==
    IF ~HasCharacter(db, character) THEN KeyError
    ELSE LET move_type == CorrectMoveType(move_type_query)
             Test(x)   == IsSubstring(Lower(MoveTypeValue[move_type.type]), Lower(x.notes))
         IN  IF move_type.kind = "type"
             THEN AList(Filtered(db[character].movelist, Test))
             ELSE AList(<<>>)

\* FrameDb.get_move_by_id
GetMoveById(db, character, move_id) ==
    IF ~HasCharacter(db, character) THEN KeyError
    ELSE LET character_movelist == db[character].movelist
         IN  IF ~(\E i \in 1..Len(character_movelist) : character_movelist[i].id = move_id)
             THEN None
             ELSE AMove(character_movelist[CHOOSE i \in 1..Len(character_movelist) :
                                               character_movelist[i].id = move_id])

\* FrameDb.get_moves_by_move_input
GetMovesByMoveInput(db, character, input_query) ==
    IF ~HasCharacter(db, character) THEN KeyError
    ELSE LET ml == db[character].movelist
             command_list == [i \in 1..Len(ml) |-> SimplifyInput(ml[i].input)]
             similar_move_indices ==
                 GetCloseMatchesIndices(SimplifyInput(input_query), command_list)
         IN  AList([k \in 1..Len(similar_move_indices) |-> ml[similar_move_indices[k]]])

DecisionNameFirst(character_move, similar_name_moves, similar_input_moves) ==
    IF Len(similar_name_moves) = 1 THEN AMove(similar_name_moves[1])
    ELSE IF character_move.kind = "move" THEN character_move
    ELSE IF Len(similar_input_moves) = 1 THEN AMove(similar_input_moves[1])
    ELSE AList(similar_name_moves \o similar_input_moves)

DecisionFuzzyFirst(character_move, similar_name_moves, similar_input_moves) ==
    IF character_move.kind = "move" THEN character_move
    ELSE IF Len(similar_input_moves) = 1 THEN AMove(similar_input_moves[1])
    ELSE IF Len(similar_name_moves) = 1 THEN AMove(similar_name_moves[1])
    ELSE AList(similar_name_moves \o similar_input_moves)

\* the if / elif chain at the end of search_move
Decision(character_move, similar_name_moves, similar_input_moves) ==
    IF character_move.kind = "move" THEN character_move
    ELSE IF Len(similar_name_moves) = 1 THEN AMove(similar_name_moves[1])
    ELSE IF Len(similar_input_moves) = 1 THEN AMove(similar_input_moves[1])
    ELSE AList(similar_name_moves \o similar_input_moves)

\* FrameDb.search_move
SearchMove(db, character, move_query) ==
    LET character_move      == GetMoveByInput(db, character, move_query)
        similar_name_moves  == GetMovesByMoveName(db, character, move_query)
        similar_input_moves == GetMovesByMoveInput(db, character, move_query)
    IN  IF character_move.kind = "raise" THEN character_move
        ELSE Decision(character_move, similar_name_moves.moves, similar_input_moves.moves)

(***************************************************************************)
(* The queries of one behaviour: a FrameDb as a load left it, then a call  *)
(***************************************************************************)
\* the moves a movelist is drawn from, without their ids
MoveKinds ==
    << [input |-> <<"d", "/", "f", "+", "2">>, name |-> <<"A", "b">>,
        alt |-> <<>>, alias |-> << <<"D", "2">> >>,
        notes |-> <<"H", "o", "m", "i", "n", "g">>],
       [input |-> <<"d", "f", "2", ",", "1">>, name |-> <<"D", "F", "2", " ", "k">>,
        alt |-> << <<"d", "+", "2">> >>, alias |-> <<>>,
        notes |-> <<>>],
       [input |-> <<"d", "+", "2">>, name |-> <<"a", "b", " ", "k">>,
        alt |-> <<>>, alias |-> <<>>,
        notes |-> <<"t", "h", "r", "o", "w", " ", "1">>] >>

KindSeqs == UNION {[1..n -> 1..Len(MoveKinds)] : n \in 0..MaxMoves}

\* Character(name, movelist): the moves in the order of the mapping, the id
\* of a move being its place
CharacterOf(name, ks) ==
    [name |-> name,
     movelist |-> [i \in 1..Len(ks) |->
                      [id |-> i, input |-> MoveKinds[ks[i]].input,
                       name |-> MoveKinds[ks[i]].name, alt |-> MoveKinds[ks[i]].alt,
                       alias |-> MoveKinds[ks[i]].alias, notes |-> MoveKinds[ks[i]].notes]]]

Queries ==
    { <<"d", "f", "2">>, <<" ", "D", "/", "F", "+", "2">>, <<"d", "2">>,
      <<"d", "f", "1">>, <<"f", "2">>, <<"k">> }

TypeQueries == { <<"H", "o", "m">>, <<"g", "r", "a", "b">>, <<"l", "o", "w">> }

MoveIds == 1..(MaxMoves + 1)

InitSearch ==
    /\ \/ frames = <<>>
       \/ \E ks \in KindSeqs :
             frames = [c \in {CharacterName[1]} |-> CharacterOf(CharacterName[1], ks)]
    /\ call = [op |-> "none"]
    /\ result = [kind |-> "pending"]
    /\ ResolverIdle
    /\ LoadIdle

Characters == {CharacterName[i] : i \in 1..Len(CharacterName)}

\* the characters asked about: the first, which a load may have stored, and
\* the last, which no load has stored
AskedCharacters == {CharacterName[1], CharacterName[Len(CharacterName)]}

CallSearchMove ==
    /\ call.op = "none"
    /\ \E c \in AskedCharacters, q \in Queries :
          /\ call' = [op |-> "search_move", character |-> c, query |-> q]
          /\ result' = SearchMove(frames, c, q)
    /\ UNCHANGED <<frames, resVars, loadVars>>

CallGetMoveByInput ==
    /\ call.op = "none"
    /\ \E c \in AskedCharacters, q \in Queries :
          /\ call' = [op |-> "get_move_by_input", character |-> c, query |-> q]
          /\ result' = GetMoveByInput(frames, c, q)
    /\ UNCHANGED <<frames, resVars, loadVars>>

CallGetMovesByMoveName ==
    /\ call.op = "none"
    /\ \E c \in AskedCharacters, q \in Queries :
          /\ call' = [op |-> "get_moves_by_move_name", character |-> c, query |-> q]
          /\ result' = GetMovesByMoveName(frames, c, q)
    /\ UNCHANGED <<frames, resVars, loadVars>>

CallGetMovesByMoveInput ==
    /\ call.op = "none"
    /\ \E c \in AskedCharacters, q \in Queries :
          /\ call' = [op |-> "get_moves_by_move_input", character |-> c, query |-> q]
          /\ result' = GetMovesByMoveInput(frames, c, q)
    /\ UNCHANGED <<frames, resVars, loadVars>>

CallGetMovesByMoveType ==
    /\ call.op = "none"
    /\ \E c \in AskedCharacters, q \in TypeQueries :
          /\ call' = [op |-> "get_moves_by_move_type", character |-> c, query |-> q]
          /\ result' = GetMovesByMoveType(frames, c, q)
    /\ UNCHANGED <<frames, resVars, loadVars>>

CallGetMoveById ==
    /\ call.op = "none"
    /\ \E c \in AskedCharacters, id \in MoveIds :
          /\ call' = [op |-> "get_move_by_id", character |-> c, query |-> id]
          /\ result' = GetMoveById(frames, c, id)
    /\ UNCHANGED <<frames, resVars, loadVars>>

NextSearch ==
    \/ CallSearchMove
    \/ CallGetMoveByInput
    \/ CallGetMovesByMoveName
    \/ CallGetMovesByMoveInput
    \/ CallGetMovesByMoveType
    \/ CallGetMoveById

SpecSearch == InitSearch /\ [][NextSearch]_vars

(***************************************************************************)
(* _simplify_input on its own: a query, then the call                      *)
(***************************************************************************)
Tokens ==
    << <<"c", "d">>, <<"w", "r">>, <<"s">>, <<"1">>, <<"2">>, <<"C", "D">>,
       <<"W", "R">>, <<"f", "n", "d", "d", "f">>, <<"f", "f", "f">> >>

RECURSIVE Flattened(_)
Flattened(parts) == IF parts = <<>> THEN <<>> ELSE parts[1] \o Flattened(Tail(parts))

SimplifyQueries ==
    {Flattened([i \in 1..Len(ts) |-> Tokens[ts[i]]]) :
        ts \in UNION {[1..n -> 1..Len(Tokens)] : n \in 0..MaxTokens}}

InitSimplify ==
    /\ frames = <<>>
    /\ call = [op |-> "none"]
    /\ result = [kind |-> "pending"]
    /\ ResolverIdle
    /\ LoadIdle

CallSimplifyInput ==
    /\ call.op = "none"
    /\ \E q \in SimplifyQueries :
          /\ call' = [op |-> "_simplify_input", query |-> q]
          /\ result' = [kind |-> "str", value |-> SimplifyInput(q)]
    /\ UNCHANGED <<frames, resVars, loadVars>>

NextSimplify == CallSimplifyInput

SpecSimplify == InitSimplify /\ [][NextSimplify]_vars

(***************************************************************************)
(* FrameDb.load, with the frame service and a reader of FrameDb.frames     *)
(***************************************************************************)
\* what frame_service.get_frame_data does for a character: it returns a
\* Character, returns nothing, or raises (session.get, json.loads and
\* content["cargoquery"] of the wavu service raise on a failed fetch)
Outcomes == {"data", "nothing", "raises"}

\* the Character the service returns for a character in the load number g
FetchedCharacter(c, g) == CharacterOf(c, <<((g - 1) % Len(MoveKinds)) + 1>>)

\* self.frames[character] = frames
Stored(db, c, character) ==
    [x \in (DOMAIN db) \cup {c} |-> IF x = c THEN character ELSE db[x]]

InitLoad ==
    /\ frames = <<>>
    /\ call = [op |-> "none"]
    /\ result = [kind |-> "pending"]
    /\ ResolverIdle
    /\ LoadIdle

\* load is called: with requests.session() as session
StartLoad ==
    /\ load_pc = "idle"
    /\ loads < MaxLoads
    /\ loads' = loads + 1
    /\ service' \in [Characters -> Outcomes]
    /\ before' = frames
    /\ load_idx' = 1
    /\ load_pc' = "for"
    /\ UNCHANGED <<frames, call, result, autocomplete, observed, resVars>>

\* one turn of: for character in CharacterName
FetchCharacter ==
    /\ load_pc = "for"
    /\ load_idx <= Len(CharacterName)
    /\ LET character == CharacterName[load_idx]
       IN  CASE service[character] = "raises" ->
                   /\ load_pc' = "raised"
                   /\ UNCHANGED <<frames, load_idx>>
             [] service[character] = "data" ->
                   /\ frames' = Stored(frames, character, FetchedCharacter(character, loads))
                   /\ load_idx' = load_idx + 1
                   /\ UNCHANGED load_pc
             [] OTHER ->
                   /\ load_idx' = load_idx + 1
                   /\ UNCHANGED <<frames, load_pc>>
    /\ UNCHANGED <<call, result, service, autocomplete, loads, before, observed, resVars>>

\* self._build_autocomplete(), and load returns
BuildAutocomplete ==
    /\ load_pc = "for"
    /\ load_idx > Len(CharacterName)
    /\ autocomplete' = DOMAIN frames
    /\ load_pc' = "idle"
    /\ UNCHANGED <<frames, call, result, load_idx, service, loads, before, observed, resVars>>

\* a reader, in another thread than the refresh, looks at FrameDb.frames
ReadFrames ==
    /\ observed' = [during |-> load_pc = "for", load |-> loads, frames |-> frames]
    /\ UNCHANGED <<frames, call, result, load_pc, load_idx, service, autocomplete,
                   loads, before, resVars>>

NextLoad == StartLoad \/ FetchCharacter \/ BuildAutocomplete \/ ReadFrames

SpecLoad == InitLoad /\ [][NextLoad]_vars

(***************************************************************************)
(* Claims about the query methods                                          *)
(***************************************************************************)
\* the call was made on a character that has an entry in frames
CalledOnLoaded(op) == call.op = op /\ call.character \in DOMAIN frames

CalledMovelist == frames[call.character].movelist

SameInput(a, b) == SimplifyInput(a) = SimplifyInput(b)

\* some move matches the query by its input, an alt or an alias
ExactlyMatched(ml, q) ==
    \E i \in 1..Len(ml) :
        \/ SameInput(ml[i].input, q)
        \/ \E k \in 1..Len(ml[i].alt) : SameInput(ml[i].alt[k], q)
        \/ \E k \in 1..Len(ml[i].alias) : SameInput(ml[i].alias[k], q)

\* the moves whose name contains the query, case ignored, in movelist order
NameCandidates(ml, q) ==
    LET InName(m) == IsSubstring(Lower(q), Lower(m.name))
    IN  SelectSeq(ml, InName)

\* C4: when some move's simplified input equals the simplified query,
\* search_move returns one Move, whose simplified input equals the simplified
\* query, whatever names contain the query.
C4_ExactInputFirst ==
    (/\ CalledOnLoaded("search_move")
     /\ \E i \in 1..Len(CalledMovelist) : SameInput(CalledMovelist[i].input, call.query))
    => /\ result.kind = "move"
       /\ SameInput(result.move.input, call.query)

\* "df2" asked of a movelist whose first move is named "DF2 k" and whose
\* second move has the input "d/f+2"
C4_Witness ==
    /\ CalledOnLoaded("search_move")
    /\ call.query = <<"d", "f", "2">>
    /\ Len(CalledMovelist) >= 2
    /\ CalledMovelist[1].name = <<"D", "F", "2", " ", "k">>
    /\ CalledMovelist[2].input = <<"d", "/", "f", "+", "2">>
    /\ result = AMove(CalledMovelist[2])

\* C5: with no exact match, search_move returns the single name candidate
\* when there is exactly one, else the single fuzzy candidate when there is
\* exactly one, else the list of the name candidates followed by the fuzzy
\* candidates.
C5_DecisionRule ==
    (CalledOnLoaded("search_move") /\ ~ExactlyMatched(CalledMovelist, call.query))
    => LET names == NameCandidates(CalledMovelist, call.query)
           fuzzy == GetMovesByMoveInput(frames, call.character, call.query).moves
       IN  /\ Len(names) = 1 => result = [kind |-> "move", move |-> names[1]]
           /\ (Len(names) # 1 /\ Len(fuzzy) = 1)
                  => result = [kind |-> "move", move |-> fuzzy[1]]
           /\ (Len(names) # 1 /\ Len(fuzzy) # 1)
                  => result = [kind |-> "list", moves |-> names \o fuzzy]
           /\ (names = <<>> /\ fuzzy = <<>>) => result = [kind |-> "list", moves |-> <<>>]

\* two name candidates and two fuzzy candidates: the list of the four
C5_Witness ==
    /\ CalledOnLoaded("search_move")
    /\ ~ExactlyMatched(CalledMovelist, call.query)
    /\ Len(NameCandidates(CalledMovelist, call.query)) = 2
    /\ result.kind = "list"
    /\ Len(result.moves) = 4
    /\ result.moves[1] = NameCandidates(CalledMovelist, call.query)[1]
    /\ result.moves[3] \notin
           {NameCandidates(CalledMovelist, call.query)[k] : k \in 1..2}

\* the ratio of a move's simplified input to the simplified query
RatioToQuery(m, q) == Ratio(SimplifyInput(m.input), SimplifyInput(q))

RatioLess(r, t) == r[1] * t[2] < t[1] * r[2]

\* C6: the fuzzy input stage returns at most 5 moves, each with a ratio of at
\* least 0.7 to the query, in descending order of ratio, and leaves out no
\* move with a strictly higher ratio than a returned one.
C6_FuzzyStage ==
    CalledOnLoaded("get_moves_by_move_input")
    => LET got == result.moves
           q   == call.query
       IN  /\ result.kind = "list"
           /\ Len(got) <= 5
           /\ \A k \in 1..Len(got) :
                  /\ \E i \in 1..Len(CalledMovelist) : CalledMovelist[i] = got[k]
                  /\ RatioToQuery(got[k], q)[1] * 10 >= 7 * RatioToQuery(got[k], q)[2]
           /\ \A k \in 1..(Len(got) - 1) :
                  ~RatioLess(RatioToQuery(got[k], q), RatioToQuery(got[k + 1], q))
           /\ \A i \in 1..Len(CalledMovelist) :
                  (\A k \in 1..Len(got) : got[k] # CalledMovelist[i])
                  => \A k \in 1..Len(got) :
                         ~RatioLess(RatioToQuery(got[k], q), RatioToQuery(CalledMovelist[i], q))

\* more than five moves are similar enough, five are returned, of different
\* ratios, and a move of the lowest ratio is left out
C6_Witness ==
    /\ CalledOnLoaded("get_moves_by_move_input")
    /\ Len(result.moves) = 5
    /\ Cardinality({i \in 1..Len(CalledMovelist) :
           AtLeastCutoff(RatioToQuery(CalledMovelist[i], call.query))}) > 5
    /\ RatioLess(RatioToQuery(result.moves[5], call.query),
                 RatioToQuery(result.moves[1], call.query))

\* C8: the lookups report an unknown id, query or character as absence (None
\* or an empty list) and raise nothing.
C8_AbsenceNotFault ==
    call.op \in {"get_move_by_id", "get_move_by_input", "get_moves_by_move_name",
                 "get_moves_by_move_type", "search_move"}
    => result.kind # "raise"

MatchedByInput(ml, q) == \E i \in 1..Len(ml) : SameInput(ml[i].input, q)

MatchedByAlt(ml, q) ==
    \E i \in 1..Len(ml) : \E k \in 1..Len(ml[i].alt) : SameInput(ml[i].alt[k], q)

MatchedByAlias(ml, q) ==
    \E i \in 1..Len(ml) : \E k \in 1..Len(ml[i].alias) : SameInput(ml[i].alias[k], q)

\* C11: get_move_by_input returns a move matching the query by its own
\* simplified input whenever there is one, wherever it stands in the movelist;
\* when there is none but some move matches by an alt, it returns a move
\* matching by an alt, also when an earlier move matches by an alias; and it
\* returns None only when no move matches by input, alt or alias.
C11_SubStagePriority ==
    CalledOnLoaded("get_move_by_input") =>
        LET ml == CalledMovelist
            q  == call.query
        IN  /\ MatchedByInput(ml, q) =>
                   /\ result.kind = "move"
                   /\ SameInput(result.move.input, q)
            /\ (~MatchedByInput(ml, q) /\ MatchedByAlt(ml, q)) =>
                   /\ result.kind = "move"
                   /\ \E k \in 1..Len(result.move.alt) : SameInput(result.move.alt[k], q)
            /\ (~MatchedByInput(ml, q) /\ ~MatchedByAlt(ml, q) /\ MatchedByAlias(ml, q)) =>
                   /\ result.kind = "move"
                   /\ \E k \in 1..Len(result.move.alias) : SameInput(result.move.alias[k], q)
            /\ result = None => ~ExactlyMatched(ml, q)

\* "d2" asked of a movelist whose first move has the alias "D2", whose second
\* move has the alt "d+2" and whose third move has the input "d+2": the third
\* move is returned
C11_Witness ==
    /\ CalledOnLoaded("get_move_by_input")
    /\ call.query = <<"d", "2">>
    /\ Len(CalledMovelist) >= 3
    /\ CalledMovelist[1].alias = << <<"D", "2">> >>
    /\ CalledMovelist[2].alt = << <<"d", "+", "2">> >>
    /\ CalledMovelist[3].input = <<"d", "+", "2">>
    /\ result.kind = "move"
    /\ result.move.id = 3

\* C16: when search_move returns a list, no move of the character is in it
\* twice.
C16_NoDuplicates ==
    (CalledOnLoaded("search_move") /\ result.kind = "list") =>
        \A i, j \in 1..Len(result.moves) :
            result.moves[i].id = result.moves[j].id => i = j

(***************************************************************************)
(* Claims about _simplify_input                                            *)
(***************************************************************************)
\* only a leading "cd" not followed by "s", and only a leading "wr", rewritten
LeadingTokenRewritten(q) ==
    LET q3 == IF Prefix(q, 2) = <<"c", "d">> /\ Prefix(q, 3) # <<"c", "d", "s">>
              THEN <<"f", "n", "d", "d", "f">> \o SubSeq(q, 3, Len(q))
              ELSE q
    IN  IF Prefix(q3, 2) = <<"w", "r">>
        THEN <<"f", "f", "f">> \o SubSeq(q3, 3, Len(q3))
        ELSE q3

\* C10: _simplify_input rewrites only a leading "cd" (not followed by "s") to
\* "fnddf" and only a leading "wr" to "fff", and leaves the rest of the
\* string as it was; "CD1" and "fnddf1" simplify alike, and so do "WR2" and
\* "fff2".
C10_LeadingTokenOnly ==
    /\ SimplifyInput(<<"C", "D", "1">>) = SimplifyInput(<<"f", "n", "d", "d", "f", "1">>)
    /\ SimplifyInput(<<"W", "R", "2">>) = SimplifyInput(<<"f", "f", "f", "2">>)
    /\ call.op = "_simplify_input"
           => result.value = LeadingTokenRewritten(Normalised(call.query))

(***************************************************************************)
(* Claims about FrameDb.load                                               *)
(***************************************************************************)
\* FrameDb.frames as the running load leaves it, from the turn i on
RECURSIVE AfterLoad(_, _)
AfterLoad(db, i) ==
    IF i > Len(CharacterName) THEN db
    ELSE CASE service[CharacterName[i]] = "raises" -> db
           [] service[CharacterName[i]] = "data" ->
                  AfterLoad(Stored(db, CharacterName[i],
                                   FetchedCharacter(CharacterName[i], loads)), i + 1)
           [] OTHER -> AfterLoad(db, i + 1)

\* C7: a reader of FrameDb.frames while a load runs sees the whole mapping of
\* before the load or the whole mapping of after it, never a mix.
C7_RefreshAtomic ==
    (observed.during /\ observed.load = loads)
    => observed.frames \in {before, AfterLoad(before, 1)}

LoadEnded == loads > 0 /\ load_pc \in {"idle", "raised"}

\* C9: a failed fetch for a character does not abort the load: every
\* character whose fetch succeeds is stored, a character whose fetch fails
\* keeps its prior entry or stays absent, and the autocomplete index is
\* rebuilt at the end.
C9_FailedFetchSkipped ==
    LoadEnded
    => /\ \A c \in Characters :
              IF service[c] = "data"
              THEN c \in DOMAIN frames /\ frames[c] = FetchedCharacter(c, loads)
              ELSE IF c \in DOMAIN before
                   THEN c \in DOMAIN frames /\ frames[c] = before[c]
                   ELSE c \notin DOMAIN frames
       /\ autocomplete = DOMAIN frames

====
